---------------------------- MODULE Spec2Model ----------------------------
(***************************************************************************)
(* A model of the YouTube caption summariser.                              *)
(*                                                                         *)
(*   src/app.py             the caption pipeline: extract_video_id,        *)
(*                          TranscriptFetcher, TranscriptFormatter,        *)
(*                          TranscriptChunker, SummaryGenerator and main   *)
(*   src/video_analyzer.py  the speech path: VideoAnalyzer                 *)
(*                                                                         *)
(* Strings are sequences of one-character strings.  Python indices are     *)
(* 0-based and are kept 0-based in the operators that model str methods;   *)
(* the translation to TLA+'s 1-based sequences is done inside them.        *)
(*                                                                         *)
(* Three specifications:                                                   *)
(*   SpecChunk     chunk_text(text, max_length) run on every text over     *)
(*                 Alphabet of length <= MaxTextLen, max_length 1..MaxLen  *)
(*   Spec          one press of the button of app.py's main                *)
(*   SpecAnalyzer  one call of VideoAnalyzer.analyze_video                 *)
(***************************************************************************)
EXTENDS Integers, Sequences, FiniteSets, TLC

VARIABLES
    \* ---- TranscriptChunker.chunk_text (its locals)
    pc,               \* position of the running program
    arg_text,         \* the text chunk_text was called with
    text,             \* chunk_text's local `text`, rebound by the loop
    max_length,       \* chunk_text's parameter
    chunks,           \* chunk_text's local `chunks`
    \* ---- main of app.py
    url,              \* st.text_input
    selected_modes,   \* st.multiselect, in selection order
    video_id,         \* extract_video_id(url)
    available_langs,  \* TranscriptFetcher.available_langs
    transcript_list,  \* the listing: language code -> entries its fetch gives
    transcript_data,  \* fetcher.fetch(video_id)
    list_calls,       \* number of YouTubeTranscriptApi.list_transcripts calls
    lang,             \* _fetch_transcript's parameter
    fetch_calls,      \* the tracks whose fetch was attempted: <<[lang, ok]>>
    mode_i,           \* index of the mode the loop of main is at
    processed,        \* the modes whose loop body has ended, in order
    returned_ok,      \* the modes whose summarize_in_chunks returned
    summaries_output, \* main's dict: a function from modes to summaries
    summaries,        \* summarize_in_chunks's local `summaries`
    chunk_i,          \* index of the chunk summarize_in_chunks is at
    inv_calls,        \* prompts this summarize_in_chunks sent to the service
    inv_replies,      \* the replies to them ("raise" for a failure)
    n_gen_calls,      \* number of model.generate_content calls of the run
    errors,           \* the st.error messages shown
    outcome,          \* how main ended: "none", "error", "success"
    \* ---- VideoAnalyzer
    a_video_id,       \* analyze_video's argument
    audio_stream,     \* download_audio's local
    audio_path,       \* the temporary file's name
    files,            \* temporary files on disk
    created,          \* temporary files download_audio has created
    content,          \* transcribe_audio's local: the bytes read
    response,         \* transcribe_audio's local: the recognition results
    a_result          \* what analyze_video returned

chunk_vars == <<arg_text, text, max_length, chunks>>
main_vars == <<url, selected_modes, video_id, available_langs, transcript_list,
               transcript_data, list_calls, lang, fetch_calls, mode_i, processed,
               returned_ok, summaries_output, summaries, chunk_i, inv_calls,
               inv_replies, n_gen_calls, errors, outcome>>
analyzer_vars == <<a_video_id, audio_stream, audio_path, files, created,
                   content, response, a_result>>
vars == <<pc, chunk_vars, main_vars, analyzer_vars>>

\* An Optional[T] value is None or Some(v); a string-valued variable that
\* holds nothing yet holds Nil.
None == <<>>
Some(v) == <<v>>
Nil == "None"

----------------------------------------------------------------------------
(* Bounds of the model.                                                    *)

\* Longest text SpecChunk passes to chunk_text.
MaxTextLen == 5
\* Largest max_length SpecChunk passes to chunk_text.
MaxLen == 3
\* chunk_text's loop can fail to terminate, appending chunks for ever: the
\* model stops unrolling it once `chunks` holds this many entries.
MaxChunks == 10

\* CHUNK_SIZE is 4000 in the source (src/app.py:20).  The model scales it
\* down so that transcripts of two short entries exceed it; what chunk_text
\* does for every max_length in 1..MaxLen is checked under SpecChunk.
CHUNK_SIZE == 4

\* The characters of the texts SpecChunk enumerates.
Alphabet == {"a", ".", " "}

----------------------------------------------------------------------------
(* Python's str operations.                                                *)

Min(a, b) == IF a < b THEN a ELSE b

\* str.strip() strips whitespace; these are the whitespace characters of the
\* model's texts.
Whitespace == {" ", "\n"}

\* s[:k] for 0 <= k
SliceTo(s, k) == SubSeq(s, 1, Min(k, Len(s)))

\* s[k:] for 0 <= k
SliceFrom(s, k) == SubSeq(s, k + 1, Len(s))

\* s.strip()
Strip(s) ==
    LET keep == {i \in 1..Len(s) : s[i] \notin Whitespace}
    IN  IF keep = {} THEN <<>>
        ELSE LET lo == CHOOSE i \in keep : \A j \in keep : i <= j
                 hi == CHOOSE i \in keep : \A j \in keep : i >= j
             IN  SubSeq(s, lo, hi)

RECURSIVE Concat(_)
\* "".join(parts)
Concat(parts) ==
    IF parts = <<>> THEN <<>> ELSE Head(parts) \o Concat(Tail(parts))

\* s.rfind(ch, lo, hi): the highest 0-based index i, lo <= i < hi, with
\* s[i] = ch, or -1
RFind(s, ch, lo, hi) ==
    LET at == {i \in lo..(Min(hi, Len(s)) - 1) : s[i + 1] = ch}
    IN  IF at = {} THEN -1
        ELSE CHOOSE i \in at : \A j \in at : i >= j

----------------------------------------------------------------------------
(* TranscriptChunker.chunk_text, src/app.py:79-88.                         *)

\* LoopCond off by one.
LoopCondOffByOne(t, m) == Len(t) > m + 1

\* while len(text) > max_length
LoopCond(t, m) == Len(t) > m

\* split_index = text.rfind('.', 0, max_length);
\* if split_index == -1: split_index = max_length
SplitIndex(t, m) ==
    LET split_index == RFind(t, ".", 0, m)
    IN  IF split_index = -1 THEN m ELSE split_index

\* chunks.append(text[:split_index].strip())
ChunkOf(t, split_index) == Strip(SliceTo(t, split_index))

\* RestOf skipping the character at split_index.
RestOfSkipping(t, split_index) == Strip(SliceFrom(t, split_index + 1))

\* text = text[split_index:].strip()
RestOf(t, split_index) == Strip(SliceFrom(t, split_index))

\* One iteration of the while loop.
ChunkLoop ==
    /\ pc = "chunk_text"
    /\ LoopCond(text, max_length)
    /\ Len(chunks) < MaxChunks
    /\ LET split_index == SplitIndex(text, max_length)
       IN  /\ chunks' = Append(chunks, ChunkOf(text, split_index))
           /\ text' = RestOf(text, split_index)
    /\ UNCHANGED <<pc, arg_text, max_length, main_vars, analyzer_vars>>

\* The loop's exit: chunks.append(text); return chunks
ChunkReturn ==
    /\ pc = "chunk_text"
    /\ ~LoopCond(text, max_length)
    /\ chunks' = Append(chunks, text)
    /\ pc' = "chunked"
    /\ UNCHANGED <<arg_text, text, max_length, main_vars, analyzer_vars>>

----------------------------------------------------------------------------
(* TranscriptFormatter and format_seconds, src/app.py:67-75, 155-157.      *)

\* A TranscriptEntry is [start |-> tenths of a second, text |-> string]:
\* `start` is a float in the source, and int(start) truncates it.
IntOf(start) == start \div 10

DigitChars == <<"0", "1", "2", "3", "4", "5", "6", "7", "8", "9">>

RECURSIVE Decimal(_)
\* str(n) for n >= 0
Decimal(n) ==
    IF n < 10 THEN <<DigitChars[n + 1]>>
    ELSE Append(Decimal(n \div 10), DigitChars[(n % 10) + 1])

\* f"{n:02}": at least two digits, zero-padded
Pad2(n) == IF n < 10 THEN <<"0">> \o Decimal(n) ELSE Decimal(n)

\* m, s = divmod(int(seconds), 60); f"{m:02}:{s:02}"
format_seconds(seconds) ==
    LET m == IntOf(seconds) \div 60
        s == IntOf(seconds) % 60
    IN  Pad2(m) \o <<":">> \o Pad2(s)

RECURSIVE Join(_, _)
\* sep.join(parts)
Join(sep, parts) ==
    IF parts = <<>> THEN <<>>
    ELSE IF Len(parts) = 1 THEN parts[1]
    ELSE parts[1] \o sep \o Join(sep, Tail(parts))

\* "\n".join(f"[{format_seconds(entry.start)}] {entry.text}" ...)
format_with_timestamps(transcript) ==
    Join(<<"\n">>,
         [i \in 1..Len(transcript) |->
             <<"[">> \o format_seconds(transcript[i].start) \o <<"]", " ">>
                 \o transcript[i].text])

\* " ".join(entry.text for entry in transcript)
format_plain(transcript) ==
    Join(<<" ">>, [i \in 1..Len(transcript) |-> transcript[i].text])

\* the rendering main chooses for a mode (lines 199-201)
Formatted(transcript, mode) ==
    IF mode = "TIMELINE" THEN format_with_timestamps(transcript)
    ELSE format_plain(transcript)

----------------------------------------------------------------------------
(* extract_video_id, src/app.py:159-161.                                   *)

\* the {11} of the pattern
ID_LEN == 11

\* The characters of the model's URLs that are in the class [0-9A-Za-z_-].
IdChars == {"a", "b", "e", "v", "y", "1", "_", "-"}

\* Whether (?:v=|\/)([0-9A-Za-z_-]{11}) matches at 1-based position i of u;
\* GroupStart is where its group begins.
GroupStart(u, i) ==
    IF i + 1 <= Len(u) /\ u[i] = "v" /\ u[i + 1] = "=" THEN i + 2
    ELSE IF u[i] = "/" THEN i + 1
    ELSE 0

MatchesAt(u, i) ==
    LET g == GroupStart(u, i)
    IN  /\ g # 0
        /\ g + ID_LEN - 1 <= Len(u)
        /\ \A k \in g..(g + ID_LEN - 1) : u[k] \in IdChars

\* re.search: the leftmost match; match.group(1) if match else None
extract_video_id(u) ==
    LET at == {i \in 1..Len(u) : MatchesAt(u, i)}
    IN  IF at = {} THEN None
        ELSE LET i == CHOOSE j \in at : \A k \in at : j <= k
             IN  Some(SubSeq(u, GroupStart(u, i), GroupStart(u, i) + ID_LEN - 1))

\* Falsy with None taken for a value.
FalsyButNone(x) == x # None /\ x[1] = <<>>

\* Python's `not x` for the Optional values main tests: None, "" and [] are
\* falsy
Falsy(x) == x = None \/ x[1] = <<>>

----------------------------------------------------------------------------
(* TranscriptFetcher, src/app.py:28-65.                                    *)

\* Caption tracks a video can have, per language code.  Each language's
\* entries use letters of its own, so that a transcript tells its track.
Entry(start, txt) == [start |-> start, text |-> txt]

TracksOf(l) ==
    IF l = "ko" THEN
        { <<>>,
          <<Entry(0, <<"k", "k", ".">>)>>,
          <<Entry(0, <<"k", "k", ".">>), Entry(655, <<"k", "o">>)>>,
          <<Entry(0, <<"k", ".">>), Entry(59, <<"k", "o", "k", "o", "k">>)>> }
    ELSE IF l = "en" THEN
        { <<Entry(12, <<"e", "n">>)>>,
          <<Entry(0, <<"e", ".">>), Entry(600, <<"e", "n", ".">>)>> }
    ELSE
        { <<Entry(0, <<"f", "r">>)>> }

\* The language codes a listing can hold.
Langs == <<"ko", "en", "fr">>

\* What YouTubeTranscriptApi.list_transcripts can return: for a set of
\* language codes, the entries the fetch of each track would give.
Listings ==
    UNION {{f \in [S -> UNION {TracksOf(l) : l \in S}] :
                \A l \in S : f[l] \in TracksOf(l)} :
           S \in SUBSET {Langs[i] : i \in 1..Len(Langs)}}

\* [t.language_code for t in transcript_list]
LanguageCodes(listing) ==
    SelectSeq(Langs, LAMBDA l : l \in DOMAIN listing)

\* x in list
In(x, list) == \E i \in 1..Len(list) : list[i] = x

\* SelectLang with the priority the other way round.
SelectLangEnglishFirst(langs) ==
    IF In("en", langs) THEN "en"
    ELSE IF In("ko", langs) THEN "ko"
    ELSE Nil

\* The track fetch() goes on to fetch (lines 42-49): 'ko' first, then 'en';
\* Nil when neither is listed.
SelectLang(langs) ==
    IF In("ko", langs) THEN "ko"
    ELSE IF In("en", langs) THEN "en"
    ELSE Nil

\* fetch(), up to the call of _fetch_transcript: list_transcripts raises
\* (the except of line 51 returns None) or returns a listing.
ListTranscripts ==
    /\ pc = "fetch"
    /\ list_calls' = list_calls + 1
    /\ \/ /\ transcript_data' = None
          /\ pc' = "fetched"
          /\ UNCHANGED <<available_langs, transcript_list, lang>>
       \/ \E listing \in Listings :
             /\ transcript_list' = listing
             /\ available_langs' = LanguageCodes(listing)
             /\ lang' = SelectLang(available_langs')
             /\ IF lang' = Nil
                THEN /\ transcript_data' = None
                     /\ pc' = "fetched"
                ELSE /\ pc' = "fetch_transcript"
                     /\ UNCHANGED transcript_data
    /\ UNCHANGED <<url, selected_modes, video_id, fetch_calls, mode_i,
                   processed, returned_ok, summaries_output, summaries,
                   chunk_i, inv_calls, inv_replies, n_gen_calls, errors,
                   outcome, chunk_vars, analyzer_vars>>

\* _fetch_transcript(transcript_list, lang): the entries of the track, or
\* None when find_transcript or fetch raises (line 63).
FetchTranscript ==
    /\ pc = "fetch_transcript"
    /\ \/ /\ transcript_data' = Some(transcript_list[lang])
          /\ fetch_calls' = Append(fetch_calls, [lang |-> lang, ok |-> TRUE])
       \/ /\ transcript_data' = None
          /\ fetch_calls' = Append(fetch_calls, [lang |-> lang, ok |-> FALSE])
    /\ pc' = "fetched"
    /\ UNCHANGED <<url, selected_modes, video_id, available_langs,
                   transcript_list, list_calls, lang, mode_i, processed,
                   returned_ok, summaries_output, summaries, chunk_i,
                   inv_calls, inv_replies, n_gen_calls, errors, outcome,
                   chunk_vars, analyzer_vars>>

----------------------------------------------------------------------------
(* SummaryGenerator, src/app.py:90-153.                                    *)

\* The members of the enum SummaryMode.  st.multiselect offers exactly their
\* values, so SummaryMode(mode_str) of line 197 finds a member for each.
SummaryMode == {"KEY_POINTS", "TIMELINE", "KEYWORDS"}

\* prompts[mode].format(transcript=transcript): the mode's template with the
\* transcript in the place of {transcript}.  <<mode>> stands for the fixed
\* text of the template before it; a newline follows it.
build_prompt(transcript, mode) == <<mode>> \o transcript \o <<"\n">>

\* FinalPrompt joining the summaries with spaces.
FinalPromptSpaces(ss) == <<"FINAL">> \o Join(<<" ">>, ss)

\* The reduction prompt of line 149.  <<"FINAL">> stands for its fixed text.
FinalPrompt(ss) == <<"FINAL">> \o Join(<<"\n">>, ss)

\* The texts the generative service can answer with.
Replies == {<<"x">>, <<"y", ".">>}

\* The mode the loop of main is at.
Mode == selected_modes[mode_i]

\* AfterFailure leaving the loop (`break`).
AfterFailureBreak(i) == Len(selected_modes) + 1

\* The index the loop of main goes on with after the except of line 206:
\* `continue`.
AfterFailure(i) == i + 1

\* What the try of lines 198-204 leaves when an exception reaches the except
\* of line 206: st.error for the mode, then the next mode.
ModeFails ==
    /\ errors' = Append(errors, Mode)
    /\ processed' = Append(processed, Mode)
    /\ mode_i' = AfterFailure(mode_i)
    /\ pc' = "mode_loop"
    /\ UNCHANGED <<returned_ok, summaries_output>>

\* One turn of the loop of lines 141-146: generate_summary on the chunk's
\* prompt.  The service answers, or the call raises; generate_summary logs and
\* re-raises, and nothing in summarize_in_chunks catches it.
SummarizeChunk ==
    /\ pc = "chunked"
    /\ chunk_i <= Len(chunks)
    /\ LET prompt == build_prompt(chunks[chunk_i], Mode)
       IN  /\ inv_calls' = Append(inv_calls, prompt)
           /\ n_gen_calls' = n_gen_calls + 1
           /\ \/ \E reply \in Replies :
                    /\ summaries' = Append(summaries, reply)
                    /\ inv_replies' = Append(inv_replies, reply)
                    /\ chunk_i' = chunk_i + 1
                    /\ UNCHANGED <<pc, errors, processed, mode_i, returned_ok,
                                   summaries_output>>
              \/ /\ inv_replies' = Append(inv_replies, <<"raise">>)
                 /\ ModeFails
                 /\ UNCHANGED <<summaries, chunk_i>>
    /\ UNCHANGED <<url, selected_modes, video_id, available_langs,
                   transcript_list, transcript_data, list_calls, lang,
                   fetch_calls, outcome, chunk_vars, analyzer_vars>>

\* Lines 148-153 and 204: the reduction call on the joined summaries; its
\* answer is the mode's entry of summaries_output.
SummarizeFinal ==
    /\ pc = "chunked"
    /\ chunk_i > Len(chunks)
    /\ inv_calls' = Append(inv_calls, FinalPrompt(summaries))
    /\ n_gen_calls' = n_gen_calls + 1
    /\ \/ \E reply \in Replies :
             /\ inv_replies' = Append(inv_replies, reply)
             /\ summaries_output' = (Mode :> reply) @@ summaries_output
             /\ returned_ok' = Append(returned_ok, Mode)
             /\ processed' = Append(processed, Mode)
             /\ mode_i' = mode_i + 1
             /\ pc' = "mode_loop"
             /\ UNCHANGED errors
       \/ /\ inv_replies' = Append(inv_replies, <<"raise">>)
          /\ ModeFails
    /\ UNCHANGED <<url, selected_modes, video_id, available_langs,
                   transcript_list, transcript_data, list_calls, lang,
                   fetch_calls, summaries, chunk_i, outcome, chunk_vars,
                   analyzer_vars>>

----------------------------------------------------------------------------
(* main, src/app.py:163-220.                                               *)

\* The URLs the user can enter.
Rep(c, n) == [i \in 1..n |-> c]

Urls ==
    { <<>>,
      <<"y", "?">>,
      <<"/">> \o Rep("a", ID_LEN - 1),
      <<"?", "v", "=">> \o Rep("a", ID_LEN),
      <<"/", "/", "y", ".", "b", "e", "/">> \o Rep("b", ID_LEN + 1) }

\* What st.multiselect can return: modes in the order selected, none twice.
ModeSelections ==
    {sel \in UNION {[1..n -> SummaryMode] : n \in 0..Cardinality(SummaryMode)} :
        \A i, j \in 1..Len(sel) : i # j => sel[i] # sel[j]}

\* Line 177: nothing happens unless the button is pressed with a URL and a
\* mode; lines 178-181: the identifier, or st.error and return.
ButtonPressed ==
    /\ pc = "main"
    /\ url # <<>>
    /\ selected_modes # <<>>
    /\ video_id' = extract_video_id(url)
    /\ IF Falsy(video_id')
       THEN /\ errors' = Append(errors, "url")
            /\ outcome' = "error"
            /\ pc' = "done"
       ELSE /\ pc' = "fetch"
            /\ UNCHANGED <<errors, outcome>>
    /\ UNCHANGED <<url, selected_modes, available_langs, transcript_list,
                   transcript_data, list_calls, lang, fetch_calls, mode_i,
                   processed, returned_ok, summaries_output, summaries,
                   chunk_i, inv_calls, inv_replies, n_gen_calls, chunk_vars,
                   analyzer_vars>>

\* Lines 187-194: fetch() has returned; no transcript is st.error and return,
\* otherwise the loop over the modes starts with an empty summaries_output.
CheckTranscript ==
    /\ pc = "fetched"
    /\ transcript_list' = <<>>
    /\ IF Falsy(transcript_data)
       THEN /\ errors' = Append(errors, "transcript")
            /\ outcome' = "error"
            /\ pc' = "done"
            /\ UNCHANGED mode_i
       ELSE /\ mode_i' = 1
            /\ pc' = "mode_loop"
            /\ UNCHANGED <<errors, outcome>>
    /\ UNCHANGED <<url, selected_modes, video_id, available_langs,
                   transcript_data, list_calls, lang, fetch_calls, processed,
                   returned_ok, summaries_output, summaries, chunk_i,
                   inv_calls, inv_replies, n_gen_calls, chunk_vars,
                   analyzer_vars>>

\* Lines 196-203 and 136-137: the next mode's transcript is rendered and
\* summarize_in_chunks calls chunk_text on it with the default max_length.
\* Rendering None raises inside the try.
ModeStart ==
    /\ pc = "mode_loop"
    /\ mode_i <= Len(selected_modes)
    /\ IF transcript_data = None
       THEN /\ ModeFails
            /\ UNCHANGED <<chunk_vars, summaries, chunk_i, inv_calls,
                           inv_replies>>
       ELSE /\ arg_text' = Formatted(transcript_data[1], Mode)
            /\ text' = arg_text'
            /\ max_length' = CHUNK_SIZE
            /\ chunks' = <<>>
            /\ summaries' = <<>>
            /\ chunk_i' = 1
            /\ inv_calls' = <<>>
            /\ inv_replies' = <<>>
            /\ pc' = "chunk_text"
            /\ UNCHANGED <<errors, processed, mode_i, returned_ok,
                           summaries_output>>
    /\ UNCHANGED <<url, selected_modes, video_id, available_langs,
                   transcript_list, transcript_data, list_calls, lang,
                   fetch_calls, n_gen_calls, outcome, analyzer_vars>>

\* Lines 211-220: the loop has ended; st.success and the summaries are shown.
ModesDone ==
    /\ pc = "mode_loop"
    /\ mode_i > Len(selected_modes)
    /\ outcome' = "success"
    /\ pc' = "done"
    /\ UNCHANGED <<url, selected_modes, video_id, available_langs,
                   transcript_list, transcript_data, list_calls, lang,
                   fetch_calls, mode_i, processed, returned_ok,
                   summaries_output, summaries, chunk_i, inv_calls,
                   inv_replies, n_gen_calls, errors, chunk_vars,
                   analyzer_vars>>

----------------------------------------------------------------------------
(* VideoAnalyzer, src/video_analyzer.py:15-99.                             *)

\* The names tempfile.NamedTemporaryFile can give the file it creates.
TempNames == {"tmp1.mp4", "tmp2.mp4", "tmp3.mp4"}

\* What the recognition can return: the transcript of the first alternative
\* of each result.
RecognitionResults ==
    { <<>>,
      << <<"a">> >>,
      << <<"a", ".">>, <<"b">> >>,
      << <<"a">>, <<>>, <<"c", ".">> >> }

\* download_audio returns None (the except of line 36, whatever was done
\* before it) and analyze_video returns None at line 92.
DownloadFails ==
    /\ a_result' = None
    /\ pc' = "a_returned"

\* Lines 25-26: YouTube(...) and the lookup of the audio-only stream.  Either
\* raises, or first() gives a stream, or None when there is none.
LookupStream ==
    /\ pc = "download_audio"
    /\ \/ /\ DownloadFails
          /\ UNCHANGED audio_stream
       \/ /\ audio_stream' \in {"stream", "none"}
          /\ pc' = "tempfile"
          /\ UNCHANGED a_result
    /\ UNCHANGED <<a_video_id, audio_path, files, created, content, response,
                   chunk_vars, main_vars>>

\* Lines 29-30: NamedTemporaryFile(suffix='.mp4', delete=False) creates a
\* file under a fresh name, or raises and creates none.
CreateTempFile ==
    /\ pc = "tempfile"
    /\ \/ /\ DownloadFails
          /\ UNCHANGED <<audio_path, files, created>>
       \/ \E name \in TempNames \ files :
             /\ audio_path' = name
             /\ files' = files \cup {name}
             /\ created' = created \cup {name}
             /\ pc' = "download"
             /\ UNCHANGED a_result
    /\ UNCHANGED <<a_video_id, audio_stream, content, response, chunk_vars,
                   main_vars>>

\* Line 31: audio_stream.download(filename=audio_path), inside the with
\* block.  It raises when audio_stream is None (AttributeError) and can raise
\* on a stream; the with block then closes the file, which delete=False
\* leaves on disk, and the except of line 36 returns None.
Download ==
    /\ pc = "download"
    /\ \/ DownloadFails
       \/ /\ audio_stream = "stream"
          /\ pc' = "transcribe_audio"
          /\ UNCHANGED a_result
    /\ UNCHANGED <<a_video_id, audio_stream, audio_path, files, created,
                   content, response, chunk_vars, main_vars>>

\* transcribe_audio returns `transcript` through its finally (lines 80-85),
\* which unlinks audio_path; analyze_video returns it, or None when it is
\* falsy (lines 95-99).
TranscribeReturns(transcript) ==
    /\ files' = files \ {audio_path}
    /\ a_result' = IF Falsy(transcript) THEN None ELSE transcript
    /\ pc' = "a_returned"

\* Lines 47-48: open(audio_path, "rb") and read.
ReadAudio ==
    /\ pc = "transcribe_audio"
    /\ \/ /\ TranscribeReturns(None)
          /\ UNCHANGED content
       \/ /\ content' = "bytes"
          /\ pc' = "recognize"
          /\ UNCHANGED <<files, a_result>>
    /\ UNCHANGED <<a_video_id, audio_stream, audio_path, created, response,
                   chunk_vars, main_vars>>

\* result.alternatives[0].transcript + "\n" for each result, concatenated
\* (lines 68-70)
TranscriptOf(results) ==
    Concat([i \in 1..Len(results) |-> results[i] \o <<"\n">>])

\* Lines 60-73: long_running_recognize and operation.result(timeout=90).
\* Either raises (the except of line 75 returns None), or the results come.
Recognize ==
    /\ pc = "recognize"
    /\ \/ /\ TranscribeReturns(None)
          /\ UNCHANGED response
       \/ \E results \in RecognitionResults :
             /\ response' = Some(results)
             /\ TranscribeReturns(Some(TranscriptOf(results)))
    /\ UNCHANGED <<a_video_id, audio_stream, audio_path, created, content,
                   chunk_vars, main_vars>>

----------------------------------------------------------------------------
(* Initial values of the variables a specification does not use.           *)

MainIdle ==
    /\ url = <<>>
    /\ selected_modes = <<>>
    /\ video_id = None
    /\ available_langs = <<>>
    /\ transcript_list = <<>>
    /\ transcript_data = None
    /\ list_calls = 0
    /\ lang = Nil
    /\ fetch_calls = <<>>
    /\ mode_i = 0
    /\ processed = <<>>
    /\ returned_ok = <<>>
    /\ summaries_output = <<>>
    /\ summaries = <<>>
    /\ chunk_i = 0
    /\ inv_calls = <<>>
    /\ inv_replies = <<>>
    /\ n_gen_calls = 0
    /\ errors = <<>>
    /\ outcome = "none"

AnalyzerIdle ==
    /\ a_video_id = <<>>
    /\ audio_stream = Nil
    /\ audio_path = Nil
    /\ files = {}
    /\ created = {}
    /\ content = Nil
    /\ response = None
    /\ a_result = None

ChunkIdle ==
    /\ arg_text = <<>>
    /\ text = <<>>
    /\ max_length = 0
    /\ chunks = <<>>

----------------------------------------------------------------------------
(* SpecChunk: chunk_text on every bounded input.                           *)

Texts == UNION {[1..n -> Alphabet] : n \in 0..MaxTextLen}

InitChunk ==
    /\ pc = "chunk_text"
    /\ arg_text \in Texts
    /\ text = arg_text
    /\ max_length \in 1..MaxLen
    /\ chunks = <<>>
    /\ MainIdle
    /\ AnalyzerIdle

NextChunk == ChunkLoop \/ ChunkReturn

SpecChunk == InitChunk /\ [][NextChunk]_vars


----------------------------------------------------------------------------
(* Spec: one press of the button of app.py's main.                         *)

Init ==
    /\ pc = "main"
    /\ url \in Urls
    /\ selected_modes \in ModeSelections
    /\ video_id = None
    /\ available_langs = <<>>
    /\ transcript_list = <<>>
    /\ transcript_data = None
    /\ list_calls = 0
    /\ lang = Nil
    /\ fetch_calls = <<>>
    /\ mode_i = 0
    /\ processed = <<>>
    /\ returned_ok = <<>>
    /\ summaries_output = <<>>
    /\ summaries = <<>>
    /\ chunk_i = 0
    /\ inv_calls = <<>>
    /\ inv_replies = <<>>
    /\ n_gen_calls = 0
    /\ errors = <<>>
    /\ outcome = "none"
    /\ ChunkIdle
    /\ AnalyzerIdle

Next ==
    \/ ButtonPressed
    \/ ListTranscripts
    \/ FetchTranscript
    \/ CheckTranscript
    \/ ModeStart
    \/ ChunkLoop
    \/ ChunkReturn
    \/ SummarizeChunk
    \/ SummarizeFinal
    \/ ModesDone

Spec == Init /\ [][Next]_vars

----------------------------------------------------------------------------
(* SpecAnalyzer: one call of VideoAnalyzer.analyze_video.                  *)

\* The identifiers analyze_video is called with.
AnalyzerVideoIds == {Rep("a", ID_LEN), Rep("b", ID_LEN), <<"x">>}

\* Temporary files can be on disk before the call.
InitAnalyzer ==
    /\ pc = "download_audio"
    /\ a_video_id \in AnalyzerVideoIds
    /\ audio_stream = Nil
    /\ audio_path = Nil
    /\ files \in {F \in SUBSET TempNames : Cardinality(F) <= 1}
    /\ created = {}
    /\ content = Nil
    /\ response = None
    /\ a_result = None
    /\ ChunkIdle
    /\ MainIdle

NextAnalyzer ==
    \/ LookupStream
    \/ CreateTempFile
    \/ Download
    \/ ReadAudio
    \/ Recognize

SpecAnalyzer == InitAnalyzer /\ [][NextAnalyzer]_vars

----------------------------------------------------------------------------
(* Claims about chunk_text, checked under SpecChunk.                       *)

IsNotWhitespace(c) == c \notin Whitespace
\* s with every whitespace character removed
NonWhitespace(s) == SelectSeq(s, IsNotWhitespace)

\* A step of chunk_text that is an iteration of its while loop.
IsLoopIteration == pc = "chunk_text" /\ pc' = "chunk_text" /\ chunks' # chunks

\* C3: every iteration of chunk_text's loop strictly shortens the remaining
\* text (so the loop terminates and the remainder is emitted last).
C3_EachIterationShortens ==
    [][IsLoopIteration => Len(text') < Len(text)]_vars

\* C5: for a non-empty input text no chunk is the empty string.
C5_NoEmptyChunk ==
    arg_text # <<>> => \A i \in 1..Len(chunks) : chunks[i] # <<>>

\* C6: the chunks emitted so far followed by the text still to be chunked
\* hold exactly the non-whitespace characters of the input, in order; on
\* return, the concatenated chunks do.
C6_ConcatReconstructs ==
    pc \in {"chunk_text", "chunked"} =>
        NonWhitespace(Concat(chunks) \o (IF pc = "chunk_text" THEN text ELSE <<>>))
            = NonWhitespace(arg_text)

\* C6's case: chunk_text returned three or more chunks and trimmed whitespace
\* at their boundaries.
C6_Witness ==
    /\ pc = "chunked"
    /\ arg_text # <<>>
    /\ Len(chunks) >= 3
    /\ Len(Concat(chunks)) < Len(arg_text)
    /\ NonWhitespace(arg_text) # <<>>

\* C7: every chunk appended has length at most max_length, unless it comes
\* from a hard cut (the remaining text had no '.' before offset max_length).
C7_ChunkLengthBounded ==
    [][(pc = "chunk_text" /\ chunks' # chunks) =>
          \/ Len(chunks'[Len(chunks')]) <= max_length
          \/ /\ pc' = "chunk_text"
             /\ \A i \in 1..Min(max_length, Len(text)) : text[i] # "."]_vars

\* C7's case: chunk_text returned after a cut at a '.', a hard cut and a final
\* remainder, with a chunk as long as max_length allows.
C7_Witness ==
    /\ pc = "chunked"
    /\ Len(chunks) >= 3
    /\ \E i \in 1..Len(chunks) : Len(chunks[i]) = max_length
    /\ \E i \in 1..Len(arg_text) : arg_text[i] = "."

\* The 0-based offset of the rightmost '.' of t before offset m, or -1.
RightmostDot(t, m) ==
    LET at == {i \in 0..(Min(m, Len(t)) - 1) : t[i + 1] = "."}
    IN  IF at = {} THEN -1 ELSE CHOOSE i \in at : \A j \in at : i >= j

\* C10: an iteration whose remaining text has a '.' before offset max_length
\* cuts at the rightmost such '.', inclusive of it: the chunk is the (trimmed)
\* text up to and including that '.', and the remaining text starts after it;
\* otherwise the cut is a hard cut at offset max_length.
C10_CutInclusiveOfTerminator ==
    [][IsLoopIteration =>
          LET p == RightmostDot(text, max_length)
              c == chunks'[Len(chunks')]
          IN  IF p # -1
              THEN /\ c = Strip(SubSeq(text, 1, p + 1))
                   /\ c[Len(c)] = "."
                   /\ text' = Strip(SubSeq(text, p + 2, Len(text)))
              ELSE /\ c = Strip(SubSeq(text, 1, max_length))
                   /\ text' = Strip(SubSeq(text, max_length + 1, Len(text)))]_vars

----------------------------------------------------------------------------
(* Claims about main, TranscriptFetcher and SummaryGenerator, checked      *)
(* under Spec.                                                             *)

\* The elements of a sequence.
Range(seq) == {seq[i] : i \in 1..Len(seq)}

\* The loop over the modes has ended.
LoopEnded == pc = "done" /\ outcome = "success"

\* C1: the loop of main handles the selected modes in order; a mode whose
\* summarization raises is reported and the loop goes on: when the loop has
\* ended every selected mode has been handled, and summaries_output holds
\* exactly the modes whose summarize_in_chunks returned; an entry once
\* recorded is never removed or changed.
C1_FailureScopedToMode ==
    /\ [](/\ Len(processed) <= Len(selected_modes)
          /\ \A i \in 1..Len(processed) : processed[i] = selected_modes[i]
          /\ DOMAIN summaries_output = Range(returned_ok)
          /\ LoopEnded =>
                /\ processed = selected_modes
                /\ Range(returned_ok) \cup Range(errors) = Range(selected_modes)
                /\ Range(returned_ok) \cap Range(errors) = {})
    /\ [][\A m \in DOMAIN summaries_output :
             /\ m \in DOMAIN summaries_output'
             /\ summaries_output'[m] = summaries_output[m]]_vars

\* C1's case: three modes, the second failed after the first had succeeded,
\* and the third succeeded after it.
C1_Witness ==
    /\ LoopEnded
    /\ Len(selected_modes) = 3
    /\ errors = <<selected_modes[2]>>
    /\ DOMAIN summaries_output = {selected_modes[1], selected_modes[3]}

\* The latest call of summarize_in_chunks has got its chunks from chunk_text.
Chunked == pc \in {"chunked", "mode_loop", "done"} /\ chunks # <<>>

\* The mode of the latest call of summarize_in_chunks.
InvMode ==
    IF pc = "chunked" THEN selected_modes[mode_i]
    ELSE processed[Len(processed)]

\* The latest call of summarize_in_chunks has ended.
InvEnded == pc \in {"mode_loop", "done"} /\ chunks # <<>>

RECURSIVE JoinedByNewlines(_)
JoinedByNewlines(ss) ==
    IF ss = <<>> THEN <<>>
    ELSE IF Len(ss) = 1 THEN ss[1]
    ELSE ss[1] \o <<"\n">> \o JoinedByNewlines(Tail(ss))

\* C2: with N chunks, the calls a summarize_in_chunks sends are a prefix of:
\* the prompt of chunk 1, ..., the prompt of chunk N, the reduction prompt
\* holding the N answers joined by newlines in chunk order; no call follows
\* one that failed; the invocation returns only after all N + 1, with the
\* answer to the last.
C2_CallSequence ==
    Chunked =>
        LET N == Len(chunks)
        IN  /\ Len(inv_calls) <= N + 1
            /\ Len(inv_replies) = Len(inv_calls)
            /\ \A i \in 1..Len(inv_calls) :
                  /\ i <= N => inv_calls[i] = build_prompt(chunks[i], InvMode)
                  /\ i = N + 1 =>
                        inv_calls[i] =
                            <<"FINAL">> \o JoinedByNewlines(SubSeq(inv_replies, 1, N))
                  /\ i < Len(inv_calls) => inv_replies[i] # <<"raise">>
            /\ InvEnded =>
                  \/ inv_replies[Len(inv_replies)] = <<"raise">>
                  \/ /\ Len(inv_calls) = N + 1
                     /\ InvMode \in DOMAIN summaries_output
                     /\ summaries_output[InvMode] = inv_replies[N + 1]

\* C2's case: an invocation with two or more chunks returned after its
\* N + 1 calls, the answers to the first two chunks being different.
C2_Witness ==
    /\ InvEnded
    /\ Len(chunks) >= 2
    /\ Len(inv_calls) = Len(chunks) + 1
    /\ inv_replies[Len(inv_replies)] # <<"raise">>
    /\ inv_replies[1] # inv_replies[2]

\* The track the priority [ko, en] picks among the listed languages.
PriorityPick ==
    IF "ko" \in DOMAIN transcript_list THEN "ko"
    ELSE IF "en" \in DOMAIN transcript_list THEN "en"
    ELSE Nil

\* C8: fetch attempts the fetch of at most one track, the one the priority
\* [ko, en] picks among the listed languages; when it returns, the transcript
\* is that track's entries, or None when no track was picked or its fetch
\* failed, with no fetch of another language.
C8_SingleTrackByPriority ==
    /\ Len(fetch_calls) <= 1
    /\ pc \in {"fetch_transcript", "fetched"} =>
          /\ \A i \in 1..Len(fetch_calls) : fetch_calls[i].lang = PriorityPick
          /\ pc = "fetch_transcript" => lang = PriorityPick /\ lang # Nil
    /\ pc = "fetched" =>
          IF PriorityPick = Nil
          THEN fetch_calls = <<>> /\ transcript_data = None
          ELSE /\ Len(fetch_calls) = 1
               /\ IF fetch_calls[1].ok
                  THEN transcript_data = Some(transcript_list[PriorityPick])
                  ELSE transcript_data = None

\* C8's case: 'ko' and 'en' are both listed and fetch returned the entries
\* of the 'ko' track.
C8_Witness ==
    /\ pc = "fetched"
    /\ {"ko", "en"} \subseteq DOMAIN transcript_list
    /\ transcript_data # None
    /\ transcript_data[1] # <<>>
    /\ transcript_data[1] = transcript_list["ko"]

\* C9: without a video identifier neither the listing nor the service is
\* called; without a transcript the service is never called, and main ends
\* with no summary and with the one error message of its early return.
C9_NoTranscriptNoCalls ==
    /\ video_id = None => list_calls = 0 /\ fetch_calls = <<>>
    /\ transcript_data = None =>
          /\ n_gen_calls = 0
          /\ DOMAIN summaries_output = {}
          /\ pc \notin {"mode_loop", "chunk_text", "chunked"}
          /\ pc = "done" => outcome = "error" /\ Len(errors) = 1

\* C9's case: three modes were selected, the listing succeeded, the fetch of
\* the selected track failed, and main has ended.
C9_Witness ==
    /\ pc = "done"
    /\ Len(selected_modes) = 3
    /\ video_id # None
    /\ list_calls = 1
    /\ Len(fetch_calls) = 1
    /\ ~fetch_calls[1].ok
    /\ transcript_data = None

----------------------------------------------------------------------------
(* Claim about VideoAnalyzer, checked under SpecAnalyzer.                  *)

\* C4: when analyze_video has returned, no temporary file that
\* download_audio created is left on disk.
C4_TempFilesDeleted ==
    pc = "a_returned" => created \cap files = {}

=============================================================================
